---- MODULE Spec2Model ----
(***************************************************************************)
(* WebRTCPlayer (src/html/players/webrtc.js): the connection lifecycle     *)
(* (startPlaying, monitorConnection, attemptReconnect) and the statistics  *)
(* sampler (updateDebugInfo, parseStats, updateStatsHistory).              *)
(*                                                                         *)
(* The browser is the environment: it changes the connectionState of peer  *)
(* connections, settles the promises of play() and getStats(), and fires   *)
(* timers.  Every step of the model is one callback of the player run to   *)
(* completion (JavaScript is single-threaded), or the part of an async     *)
(* function between two awaits.                                            *)
(***************************************************************************)
EXTENDS Integers, Sequences, FiniteSets, TLC

\* ---------------------------------------------------------------- constants
MAX_RECONNECT_ATTEMPTS == 5
STATS_HISTORY_SIZE == 60

\* ------------------------------------------------------------------- bounds
\* adapters (SrsRtcPlayerAsync instances) constructed in one behaviour
MaxSessions == 7
\* reconnect timers pending at the same time
MaxTimers == 2
\* length of a run of consecutive "disconnected"/"failed" events that is counted
MaxRun == 7
\* logCodecInfo timers pending at the same time
MaxCodecTimers == 1
\* getStats() calls unresolved at the same time
MaxInFlight == 2
\* samples taken by the debug panel in one behaviour
MaxSamples == 2
\* adapters constructed in one behaviour of the sampler's specification
MaxStatSessions == 2
\* samples taken in one behaviour of the history's specification
MaxPushes == 100
\* onFrame chains running at the same time
MaxChains == 2
\* frames the video element presents in one behaviour
MaxPresented == 4
\* frames presented between two callbacks
MaxBurst == 2
MaxCount == 2
MaxKeyFrames == 2
MaxKeySamples == 3
MaxSdpLines == 3

\* ------------------------------------------------------------------ strings
LOST_MESSAGE == "Connection lost. Please refresh the page."

\* RTCPeerConnection.connectionState values a live connection moves through
\* (the player never closes a connection it listens to, so "closed" is absent)
PcStates == {"new", "connecting", "connected", "disconnected", "failed"}

\* the transitions of connectionState the browser can make
PcTransitions ==
    { <<"new", "connecting">>, <<"connecting", "connected">>,
      <<"connecting", "failed">>, <<"connected", "disconnected">>,
      <<"disconnected", "connected">>, <<"disconnected", "failed">> }

VARIABLES
    sdk,                \* this.sdk: number of the current adapter (adapters are numbered as constructed)
    pcState,            \* this.sdk.pc.connectionState
    playState,          \* promise of this.sdk.play(): "pending", "resolved", "rejected"
    stalePlays,         \* play() promises still pending on adapters that were replaced
    oldPcsLive,         \* some replaced adapter's peer connection can still change state
    openPcs,            \* peer connections created by startPlaying and not closed
    reconnectAttempts,  \* this.state.reconnectAttempts
    reconnectTimers,    \* pending setTimeout(startPlaying, RECONNECT_DELAY) timers
    connectionQuality,  \* this.state.connectionQuality
    statusText,         \* elements.statusText.textContent
    errorBox,           \* elements.errorBox.textContent
    loading,            \* elements.loading has class "show"
    isPlaying,          \* this.state.isPlaying
    codecTimers,        \* pending setTimeout(..., 2000) timers of logCodecInfo
    codecInFlight,      \* unresolved getStats() calls made by logCodecInfo
    sdpRemote,          \* this.sdpInfo.remote: the lines of the remote SDP text
    codecType,          \* this.state.codecType
    debugPanel,         \* elements.debugPanel has class "show"
    debugInterval,      \* this.debugInterval holds the handle of an interval timer
    intervalTimers,     \* interval timers set by startDebugMonitoring and not cleared
    clock,              \* getStats() calls made by updateDebugInfo so far: the time of the last call
    statsRequests,      \* unresolved getStats() calls made by updateDebugInfo, in call
                        \* order: the adapter each was called on and the time of the call
    lastStats,          \* this.lastStats: per kind, the retained snapshot
    prevStats,          \* history: prevVideo and prevAudio of the last parseStats that
                        \* read them
    report,             \* the report of the last parseStats, with the rates
                        \* renderStatsTab derives from it
    lastKeyFrameCount,  \* this.state.lastKeyFrameCount
    lastKeyFrameTime,   \* this.performanceMetrics.lastKeyFrameTime, in seconds
    keyFrameTimestamps, \* this.performanceMetrics.keyFrameTimestamps
    lastKeyFramePc,     \* history: the adapter whose snapshot set lastKeyFrameTime
    statsHistory,       \* this.statsHistory: per buffer, the snapshot each sample was derived from
    pushLog,             \* history: per buffer, every sample pushed so far, in push order
    lastReject,         \* history: the time of the last sampling tick skipped by a rejected
                        \* getStats() (0: none)
    frameCallbacks,     \* requestVideoFrameCallback registrations of onFrame not yet called
    videoFrameCallbackFps,  \* this.performanceMetrics.videoFrameCallbackFps
    maxFpsAchieved,     \* this.performanceMetrics.maxFpsAchieved
    chains,             \* per registration of frameCallbacks, the variables its onFrame
                        \* closes over: frameCount, lastTime, lastPresentedFrames
    now,                \* performance.now() at the last onFrame call, in ms
    presentedFrames,    \* frames the video element has presented: metadata.presentedFrames
    frameDeltas,        \* history: frameDelta of the last onFrame call, and the frames
                        \* presented since its chain was registered or last called
    hasFrameCallback,   \* "requestVideoFrameCallback" in HTMLVideoElement.prototype
    trackSeen,          \* history: the adapter whose pc.ontrack fired last with a video
                        \* track (0: none)
    run,                \* history: consecutive "disconnected"/"failed" events handled since the
                        \* last Connected transition; -1 when that transition left the counter non-zero
    everConnected       \* history: some peer connection may have reported "connected"

lifecycleVars ==
    <<sdk, pcState, playState, stalePlays, oldPcsLive, openPcs, reconnectAttempts,
      reconnectTimers, connectionQuality, statusText, errorBox, loading, isPlaying,
      run, everConnected>>

sdpVars == <<sdpRemote, codecType>>

codecVars == <<codecTimers, codecInFlight, sdpVars>>

metricVars ==
    <<prevStats, report, lastKeyFrameCount, lastKeyFrameTime, keyFrameTimestamps,
      lastKeyFramePc>>

samplerVars ==
    <<debugPanel, debugInterval, intervalTimers, clock, statsRequests, lastStats,
      statsHistory, pushLog, lastReject, metricVars>>

chainVars ==
    <<frameCallbacks, chains, now, presentedFrames, frameDeltas, hasFrameCallback,
      trackSeen>>

monitorVars == <<chainVars, videoFrameCallbackFps, maxFpsAchieved>>

vars == <<lifecycleVars, codecVars, samplerVars, monitorVars>>

\* --------------------------------------------------------------- operations

\* updateConnectionStatus(quality, text)
UpdateConnectionStatus(quality, text) ==
    /\ connectionQuality' = quality
    /\ statusText' = text

\* attemptReconnect() with the ceiling compared by > instead of >=
AttemptReconnectLateCeiling(quality, text) ==
    IF reconnectAttempts > MAX_RECONNECT_ATTEMPTS
    THEN /\ errorBox' = LOST_MESSAGE
         /\ UpdateConnectionStatus(quality, text)
         /\ UNCHANGED <<reconnectAttempts, reconnectTimers>>
    ELSE /\ reconnectAttempts' = reconnectAttempts + 1
         /\ UpdateConnectionStatus("connecting", "Reconnecting...")
         /\ reconnectTimers' = reconnectTimers + 1
         /\ UNCHANGED errorBox

\* attemptReconnect() with the ceiling checked after the increment
AttemptReconnectEarlyCeiling(quality, text) ==
    IF reconnectAttempts + 1 >= MAX_RECONNECT_ATTEMPTS
    THEN /\ errorBox' = LOST_MESSAGE
         /\ UpdateConnectionStatus(quality, text)
         /\ reconnectAttempts' = MAX_RECONNECT_ATTEMPTS
         /\ UNCHANGED reconnectTimers
    ELSE /\ reconnectAttempts' = reconnectAttempts + 1
         /\ UpdateConnectionStatus("connecting", "Reconnecting...")
         /\ reconnectTimers' = reconnectTimers + 1
         /\ UNCHANGED errorBox

\* attemptReconnect(), called by the listener right after it set the status
\* to (quality, text)
AttemptReconnect(quality, text) ==
    IF reconnectAttempts >= MAX_RECONNECT_ATTEMPTS
    THEN /\ errorBox' = LOST_MESSAGE
         /\ UpdateConnectionStatus(quality, text)
         /\ UNCHANGED <<reconnectAttempts, reconnectTimers>>
    ELSE /\ reconnectAttempts' = reconnectAttempts + 1
         /\ UpdateConnectionStatus("connecting", "Reconnecting...")
         /\ reconnectTimers' = reconnectTimers + 1
         /\ UNCHANGED errorBox

\* the listener with "failed" only shown, not followed by attemptReconnect()
OnConnectionStateChangeFailedShown(state) ==
    CASE state = "connected" ->
            /\ UpdateConnectionStatus("good", "Connected")
            /\ run' = IF reconnectAttempts = 0 THEN 0 ELSE -1
            /\ UNCHANGED <<reconnectAttempts, reconnectTimers, errorBox>>
      [] state = "connecting" ->
            /\ UpdateConnectionStatus("connecting", "Connecting...")
            /\ UNCHANGED <<reconnectAttempts, reconnectTimers, errorBox, run>>
      [] state = "disconnected" ->
            /\ AttemptReconnect("bad", "Disconnected")
            /\ run' = IF run = -1 THEN -1 ELSE run + 1
      [] state = "failed" ->
            /\ UpdateConnectionStatus("bad", "Connection Failed")
            /\ run' = IF run = -1 THEN -1 ELSE run + 1
            /\ UNCHANGED <<reconnectAttempts, reconnectTimers, errorBox>>
      [] OTHER ->
            UNCHANGED <<reconnectAttempts, reconnectTimers, connectionQuality,
                        statusText, errorBox, run>>

\* the "connectionstatechange" listener installed by monitorConnection();
\* state is what the listener reads from this.sdk.pc.connectionState
OnConnectionStateChange(state) ==
    CASE state = "connected" ->
            /\ UpdateConnectionStatus("good", "Connected")
            /\ run' = IF reconnectAttempts = 0 THEN 0 ELSE -1
            /\ UNCHANGED <<reconnectAttempts, reconnectTimers, errorBox>>
      [] state = "connecting" ->
            /\ UpdateConnectionStatus("connecting", "Connecting...")
            /\ UNCHANGED <<reconnectAttempts, reconnectTimers, errorBox, run>>
      [] state = "disconnected" ->
            /\ AttemptReconnect("bad", "Disconnected")
            /\ run' = IF run = -1 THEN -1 ELSE run + 1
      [] state = "failed" ->
            /\ AttemptReconnect("bad", "Connection Failed")
            /\ run' = IF run = -1 THEN -1 ELSE run + 1
      [] OTHER ->
            UNCHANGED <<reconnectAttempts, reconnectTimers, connectionQuality,
                        statusText, errorBox, run>>

\* the bounds on what the environment may deliver: an event that schedules a
\* reconnect needs a timer slot and an adapter number left for that reconnect
EventWithinBounds(state) ==
    state \in {"disconnected", "failed"} =>
        /\ run < MaxRun
        /\ reconnectAttempts < MAX_RECONNECT_ATTEMPTS =>
              /\ reconnectTimers < MaxTimers
              /\ sdk + reconnectTimers < MaxSessions

\* the browser changes the connectionState of the current peer connection
\* and dispatches "connectionstatechange" on it
ConnectionStateChange(to) ==
    /\ <<pcState, to>> \in PcTransitions
    /\ pcState = "new" => playState # "rejected"
    /\ EventWithinBounds(to)
    /\ pcState' = to
    /\ everConnected' = (everConnected \/ to = "connected")
    /\ OnConnectionStateChange(to)
    /\ UNCHANGED <<sdk, playState, stalePlays, oldPcsLive, openPcs, loading, isPlaying>>
    /\ UNCHANGED <<codecVars, samplerVars>>
    /\ UNCHANGED monitorVars

\* the browser changes the connectionState of the peer connection of a
\* replaced adapter: its listener is still installed and reads this.sdk.pc
StaleConnectionStateChange ==
    /\ oldPcsLive
    /\ EventWithinBounds(pcState)
    /\ everConnected' = TRUE
    /\ OnConnectionStateChange(pcState)
    /\ UNCHANGED <<sdk, pcState, playState, stalePlays, oldPcsLive, openPcs, loading,
                   isPlaying>>
    /\ UNCHANGED <<codecVars, samplerVars>>
    /\ UNCHANGED monitorVars

\* startPlaying() that keeps the adapter and connection it already has
StartPlayingResume ==
    /\ loading' = TRUE
    /\ UpdateConnectionStatus("connecting", "Connecting...")
    /\ UNCHANGED <<sdk, openPcs, pcState, stalePlays, oldPcsLive>>
    /\ playState' = "pending"

\* startPlaying() up to its await of this.sdk.play(): this.sdk is overwritten
\* with a new adapter, the new adapter's own default connection is closed,
\* and a new RTCPeerConnection is created for it and monitored; the adapter
\* that was this.sdk before is neither closed nor stopped
StartPlaying ==
    /\ loading' = TRUE
    /\ UpdateConnectionStatus("connecting", "Connecting...")
    /\ sdk' = sdk + 1
    /\ openPcs' = openPcs + 1
    /\ pcState' = "new"
    /\ playState' = "pending"
    /\ stalePlays' = IF playState = "pending" THEN stalePlays + 1 ELSE stalePlays
    /\ oldPcsLive' = (oldPcsLive \/ pcState # "failed")

\* the delayed startPlaying() with a reset of the history buffers
ReconnectTimerResetsHistory ==
    /\ reconnectTimers > 0
    /\ reconnectTimers' = reconnectTimers - 1
    /\ StartPlaying
    /\ statsHistory' = [b \in DOMAIN statsHistory |-> <<>>]
    /\ UNCHANGED <<reconnectAttempts, errorBox, isPlaying, run, everConnected>>
    /\ UNCHANGED <<codecVars, debugPanel, debugInterval, intervalTimers, clock,
                   statsRequests, lastStats, pushLog, lastReject, metricVars>>
    /\ UNCHANGED monitorVars

\* the delayed startPlaying() with a reset of the counter
ReconnectTimerResetsCounter ==
    /\ reconnectTimers > 0
    /\ reconnectTimers' = reconnectTimers - 1
    /\ StartPlaying
    /\ reconnectAttempts' = 0
    /\ UNCHANGED <<errorBox, isPlaying, run, everConnected>>
    /\ UNCHANGED <<codecVars, samplerVars>>
    /\ UNCHANGED monitorVars

\* the delayed startPlaying() with a reset of the retained snapshots
ReconnectTimerResetsLastStats ==
    /\ reconnectTimers > 0
    /\ reconnectTimers' = reconnectTimers - 1
    /\ StartPlaying
    /\ lastStats' = [kind \in DOMAIN lastStats |-> [pc |-> 0, ts |-> 0, rtp |-> <<>>]]
    /\ UNCHANGED <<reconnectAttempts, errorBox, isPlaying, run, everConnected>>
    /\ UNCHANGED <<codecVars, debugPanel, debugInterval, intervalTimers, clock,
                   statsRequests, statsHistory, pushLog, lastReject, metricVars>>
    /\ UNCHANGED monitorVars

\* a reconnect timer set by attemptReconnect fires
ReconnectTimer ==
    /\ reconnectTimers > 0
    /\ reconnectTimers' = reconnectTimers - 1
    /\ StartPlaying
    /\ UNCHANGED <<reconnectAttempts, errorBox, isPlaying, run, everConnected>>
    /\ UNCHANGED <<codecVars, samplerVars>>
    /\ UNCHANGED monitorVars

\* logCodecInfo(): sets a 2000 ms timer
LogCodecInfo ==
    /\ codecTimers' = IF sdk = 0 THEN codecTimers ELSE codecTimers + 1
    /\ UNCHANGED <<codecInFlight, sdpVars>>

\* startPlaying() after await this.sdk.play(WEBRTC_URL) resolved
PlayResolved ==
    /\ loading' = FALSE
    /\ UpdateConnectionStatus("good", "Connected")
    /\ isPlaying' = TRUE
    /\ reconnectAttempts' = 0
    /\ run' = 0
    /\ LogCodecInfo
    /\ UNCHANGED <<sdk, pcState, oldPcsLive, openPcs, reconnectTimers, errorBox,
                   everConnected>>

\* the words handlePlaybackError looks for in error.message
Words == {"Permission", "NotFound", "Network"}

\* the values play() can reject with: a value without a message property
\* ("absent"), one whose message is the empty string ("empty"), or one
\* whose message is a text, described by the words of Words it includes
RejectionValues ==
    {[message |-> "absent", words |-> {}], [message |-> "empty", words |-> {}]}
    \cup {[message |-> "text", words |-> w] : w \in SUBSET Words}

\* the rejection value drawn where the handling of the message is not looked
\* at: an Error with an unclassified message
PlainRejections == {[message |-> "text", words |-> {}]}

\* the texts handlePlaybackError hands to showError
PlaybackMessages ==
    {"Failed to start playback. Please allow camera/microphone access.",
     "Failed to start playback. Stream not found.",
     "Failed to start playback. Network error. Please check your connection.",
     "Failed to start playback. <error.message>",
     "Failed to start playback. Unknown error."}

\* errorMessage of handlePlaybackError for an error that has a message
ErrorMessage(error) ==
    IF "Permission" \in error.words
    THEN "Failed to start playback. Please allow camera/microphone access."
    ELSE IF "NotFound" \in error.words
    THEN "Failed to start playback. Stream not found."
    ELSE IF "Network" \in error.words
    THEN "Failed to start playback. Network error. Please check your connection."
    ELSE IF error.message = "empty"
    THEN "Failed to start playback. Unknown error."
    ELSE "Failed to start playback. <error.message>"

\* handlePlaybackError(error) that asks for a reconnect
HandlePlaybackErrorRetries(error) ==
    /\ loading' = FALSE
    /\ AttemptReconnect("bad", "Error")
    /\ UNCHANGED <<sdk, pcState, oldPcsLive, openPcs, isPlaying, run, everConnected>>
    /\ UNCHANGED codecVars

\* handlePlaybackError(error): the catch block of startPlaying().  For an
\* error without a message, error.message.includes throws a TypeError after
\* the status was set and before showError is reached
HandlePlaybackError(error) ==
    /\ loading' = FALSE
    /\ UpdateConnectionStatus("bad", "Error")
    /\ errorBox' = IF error.message = "absent" THEN errorBox ELSE ErrorMessage(error)
    /\ UNCHANGED <<sdk, pcState, oldPcsLive, openPcs, reconnectAttempts, reconnectTimers,
                   isPlaying, run, everConnected>>
    /\ UNCHANGED codecVars

\* play() of the current adapter rejects with error
PlayRejects(error) ==
    /\ playState = "pending"
    /\ playState' = "rejected"
    /\ HandlePlaybackError(error)
    /\ UNCHANGED stalePlays
    /\ UNCHANGED samplerVars
    /\ UNCHANGED monitorVars

\* play() of the current adapter settles
PlaySettles(ok) ==
    IF ok
    THEN /\ playState = "pending"
         /\ codecTimers < MaxCodecTimers
         /\ playState' = "resolved"
         /\ PlayResolved
         /\ UNCHANGED stalePlays
         /\ UNCHANGED <<samplerVars, monitorVars>>
    ELSE \E error \in RejectionValues : PlayRejects(error)

\* play() of a replaced adapter rejects with error: the same catch block runs
StalePlayRejects(error) ==
    /\ stalePlays > 0
    /\ stalePlays' = stalePlays - 1
    /\ HandlePlaybackError(error)
    /\ UNCHANGED playState
    /\ UNCHANGED samplerVars
    /\ UNCHANGED monitorVars

\* play() of a replaced adapter settles: the same continuation runs
StalePlaySettles(ok) ==
    IF ok
    THEN /\ stalePlays > 0
         /\ codecTimers < MaxCodecTimers
         /\ stalePlays' = stalePlays - 1
         /\ PlayResolved
         /\ UNCHANGED playState
         /\ UNCHANGED <<samplerVars, monitorVars>>
    ELSE \E error \in RejectionValues : StalePlayRejects(error)

\* getStats() calls not yet settled, whoever made them
InFlight == Len(statsRequests) + codecInFlight

\* the timer callback of logCodecInfo runs up to await this.sdk.pc.getStats()
CodecTimer ==
    /\ codecTimers > 0
    /\ InFlight < MaxInFlight
    /\ codecTimers' = codecTimers - 1
    /\ codecInFlight' = codecInFlight + 1
    /\ UNCHANGED sdpVars
    /\ UNCHANGED <<lifecycleVars, samplerVars>>
    /\ UNCHANGED monitorVars

\* getStats() of logCodecInfo settles: the codecs are logged, nothing is stored
CodecStatsSettle ==
    /\ codecInFlight > 0
    /\ codecInFlight' = codecInFlight - 1
    /\ UNCHANGED <<codecTimers, sdpVars>>
    /\ UNCHANGED <<lifecycleVars, samplerVars>>
    /\ UNCHANGED monitorVars

\* updateDebugInfo() up to await this.sdk.pc.getStats()
UpdateDebugInfo ==
    IF sdk = 0
    THEN UNCHANGED <<clock, statsRequests>>
    ELSE /\ clock' = clock + 1
         /\ statsRequests' = Append(statsRequests, [pc |-> sdk, at |-> clock + 1])

\* the bounds on what the user and the interval timer may start
SampleWithinBounds ==
    /\ InFlight < MaxInFlight
    /\ clock < MaxSamples

\* startDebugMonitoring(): a new interval timer is set and its handle stored,
\* whatever handle was stored before
StartDebugMonitoring ==
    /\ UpdateDebugInfo
    /\ intervalTimers' = intervalTimers + 1
    /\ debugInterval' = TRUE

\* stopDebugMonitoring() that forgets the handle without clearing the timer
StopDebugMonitoringForgets ==
    /\ debugInterval' = FALSE
    /\ UNCHANGED <<intervalTimers, clock, statsRequests>>

\* stopDebugMonitoring(): the timer of the stored handle is cleared
StopDebugMonitoring ==
    /\ intervalTimers' = IF debugInterval THEN intervalTimers - 1 ELSE intervalTimers
    /\ debugInterval' = FALSE
    /\ UNCHANGED <<clock, statsRequests>>

\* toggleDebugPanel(): the debug button, its close button or the "d" key
ToggleDebugPanel ==
    /\ debugPanel \/ SampleWithinBounds
    /\ debugPanel' = ~debugPanel
    /\ IF debugPanel' THEN StartDebugMonitoring ELSE StopDebugMonitoring
    /\ UNCHANGED <<lastStats, statsHistory, pushLog, lastReject, metricVars>>
    /\ UNCHANGED <<lifecycleVars, codecVars>>
    /\ UNCHANGED monitorVars

\* a click on a debug tab
DebugTabClick ==
    /\ debugPanel
    /\ SampleWithinBounds
    /\ UpdateDebugInfo
    /\ UNCHANGED <<debugPanel, debugInterval, intervalTimers, lastStats, statsHistory,
                   pushLog, lastReject, metricVars>>
    /\ UNCHANGED <<lifecycleVars, codecVars>>
    /\ UNCHANGED monitorVars

\* an interval timer of startDebugMonitoring fires
DebugIntervalTick ==
    /\ intervalTimers > 0
    /\ SampleWithinBounds
    /\ UpdateDebugInfo
    /\ UNCHANGED <<debugPanel, debugInterval, intervalTimers, lastStats, statsHistory,
                   pushLog, lastReject, metricVars>>
    /\ UNCHANGED <<lifecycleVars, codecVars>>
    /\ UNCHANGED monitorVars

\* the interval timer fires after the getStats() of the previous tick settled
SteadyIntervalTick ==
    /\ intervalTimers > 0
    /\ InFlight = 0
    /\ clock < MaxPushes
    /\ UpdateDebugInfo
    /\ UNCHANGED <<debugPanel, debugInterval, intervalTimers, lastStats, statsHistory,
                   pushLog, lastReject, metricVars>>
    /\ UNCHANGED <<lifecycleVars, codecVars>>
    /\ UNCHANGED monitorVars

\* a push that never shifts
PushUnbounded(buffer, value) == Append(buffer, value)

\* a push that, over the capacity, drops the value just pushed
PushDropsNewest(buffer, value) ==
    IF Len(buffer) >= STATS_HISTORY_SIZE THEN buffer ELSE Append(buffer, value)

\* one buffer of updateStatsHistory: push, then shift when over the capacity
Push(buffer, value) ==
    LET pushed == Append(buffer, value)
    IN  IF Len(pushed) > STATS_HISTORY_SIZE THEN Tail(pushed) ELSE pushed

\* ---- JavaScript values of the metrics: a number is a fraction num / den in
\* lowest terms (den > 0); undefined and NaN are values of their own, and an
\* infinity is kept without its sign

Undefined == [kind |-> "undefined", num |-> 0, den |-> 1]

NaN == [kind |-> "NaN", num |-> 0, den |-> 1]

Infinity == [kind |-> "Infinity", num |-> 0, den |-> 1]

Abs(n) == IF n < 0 THEN -n ELSE n

RECURSIVE Gcd(_, _)
Gcd(a, b) == IF b = 0 THEN a ELSE Gcd(b, a % b)

\* the number n / d, d # 0
Fraction(n, d) ==
    LET g == Gcd(Abs(n), Abs(d))
        sign == IF d < 0 THEN -1 ELSE 1
    IN  [kind |-> "number", num |-> sign * (n \div g), den |-> sign * (d \div g)]

Number(n) == Fraction(n, 1)

IsNumber(x) == x.kind = "number"

\* ToNumber(x) of an operand is NaN
IsNaN(x) == x.kind \in {"undefined", "NaN"}

\* ToBoolean(x)
Truthy(x) == x.kind = "Infinity" \/ (IsNumber(x) /\ x.num # 0)

\* x || y
OrElse(x, y) == IF Truthy(x) THEN x ELSE y

\* x - y
Minus(x, y) ==
    IF IsNaN(x) \/ IsNaN(y) THEN NaN
    ELSE IF x.kind = "Infinity" /\ y.kind = "Infinity" THEN NaN
    ELSE IF x.kind = "Infinity" \/ y.kind = "Infinity" THEN Infinity
    ELSE Fraction(x.num * y.den - y.num * x.den, x.den * y.den)

\* x + y
Plus(x, y) ==
    IF IsNaN(x) \/ IsNaN(y) THEN NaN
    ELSE IF x.kind = "Infinity" \/ y.kind = "Infinity" THEN Infinity
    ELSE Fraction(x.num * y.den + y.num * x.den, x.den * y.den)

\* x * y
Times(x, y) ==
    IF IsNaN(x) \/ IsNaN(y) THEN NaN
    ELSE IF x.kind = "Infinity" \/ y.kind = "Infinity"
    THEN IF (IsNumber(x) /\ x.num = 0) \/ (IsNumber(y) /\ y.num = 0) THEN NaN ELSE Infinity
    ELSE Fraction(x.num * y.num, x.den * y.den)

\* x / y: a division by zero gives an infinity, or NaN for 0 / 0
Over(x, y) ==
    IF IsNaN(x) \/ IsNaN(y) THEN NaN
    ELSE IF x.kind = "Infinity" THEN (IF y.kind = "Infinity" THEN NaN ELSE Infinity)
    ELSE IF y.kind = "Infinity" THEN Number(0)
    ELSE IF y.num = 0 THEN (IF x.num = 0 THEN NaN ELSE Infinity)
    ELSE Fraction(x.num * y.den, x.den * y.num)

\* x > 0 (false for NaN)
Positive(x) == x.kind = "Infinity" \/ (IsNumber(x) /\ x.num > 0)

\* Number(x.toFixed(2)) of a number x >= 0: the nearest multiple of 0.01,
\* a tie going up
ToFixed2(x) ==
    IF IsNumber(x) THEN Fraction((200 * x.num + x.den) \div (2 * x.den), 100) ELSE x

\* ---- the metrics of parseStats

\* {}: an object without fields, what this.lastStats.video holds before a
\* snapshot was retained and what a stat whose counters are not looked at is
\* taken to be
NoStat == [name \in {} |-> Undefined]

\* object[name]: undefined for a field the object does not have
Field(object, name) == IF name \in DOMAIN object THEN object[name] ELSE Undefined

\* timeDiff of parseStats
TimeDiff(prev, stat) ==
    OrElse(Over(Minus(Field(stat, "timestamp"), Field(prev, "timestamp")), Number(1000)), Number(1))

FramesDecodedDelta(prev, stat) ==
    Minus(OrElse(Field(stat, "framesDecoded"), Number(0)), OrElse(Field(prev, "framesDecoded"), Number(0)))

FramesDroppedDelta(prev, stat) ==
    Minus(OrElse(Field(stat, "framesDropped"), Number(0)), OrElse(Field(prev, "framesDropped"), Number(0)))

TotalFramesDelta(prev, stat) ==
    Plus(FramesDecodedDelta(prev, stat), FramesDroppedDelta(prev, stat))

\* frameDropRate that divides by the decoded frames
FrameDropRateOfDecoded(prev, stat) ==
    IF Positive(TotalFramesDelta(prev, stat))
    THEN Times(Over(FramesDroppedDelta(prev, stat), FramesDecodedDelta(prev, stat)),
               Number(100))
    ELSE Number(0)

\* frameDropRate of parseStats
FrameDropRate(prev, stat) ==
    IF Positive(TotalFramesDelta(prev, stat))
    THEN Times(Over(FramesDroppedDelta(prev, stat), TotalFramesDelta(prev, stat)),
               Number(100))
    ELSE Number(0)

\* bitrate without the fallback of timeDiff
BitrateOverElapsed(prev, stat) ==
    Over(Times(Minus(Field(stat, "bytesReceived"), OrElse(Field(prev, "bytesReceived"), Number(0))), Number(8)),
         Over(Minus(Field(stat, "timestamp"), Field(prev, "timestamp")), Number(1000)))

\* bitrate of report.video and of report.audio
Bitrate(prev, stat) ==
    Over(Times(Minus(Field(stat, "bytesReceived"), OrElse(Field(prev, "bytesReceived"), Number(0))), Number(8)),
         TimeDiff(prev, stat))

\* measuredFps of report.video
MeasuredFps(prev, stat) == Over(FramesDecodedDelta(prev, stat), TimeDiff(prev, stat))

\* jitter of report.video and of report.audio
Jitter(stat) == OrElse(Times(Field(stat, "jitter"), Number(1000)), Number(0))

\* packetLossRate that answers for lost packets when none was received
PacketLossRateUnguarded(media) ==
    ToFixed2(Times(Over(Field(media, "packetsLost"), Plus(Field(media, "packetsLost"), Field(media, "packetsReceived"))),
                   Number(100)))

\* packetLossRate and audioPacketLossRate of renderStatsTab, as numbers
PacketLossRate(media) ==
    IF Positive(Field(media, "packetsReceived"))
    THEN ToFixed2(Times(Over(Field(media, "packetsLost"),
                             Plus(Field(media, "packetsLost"), Field(media, "packetsReceived"))),
                        Number(100)))
    ELSE Number(0)

\* report.video of parseStats(stats), with the rate renderStatsTab shows
VideoReport(prev, stat) ==
    LET media == [packetsLost |-> OrElse(Field(stat, "packetsLost"), Number(0)),
                  packetsReceived |-> OrElse(Field(stat, "packetsReceived"), Number(0))]
    IN  [measuredFps |-> MeasuredFps(prev, stat),
         bitrate |-> Bitrate(prev, stat),
         jitter |-> Jitter(stat),
         frameDropRate |-> FrameDropRate(prev, stat),
         packetLossRate |-> PacketLossRate(media)] @@ media

\* report.audio of parseStats(stats), with the rate renderStatsTab shows
AudioReport(prev, stat) ==
    LET media == [packetsLost |-> OrElse(Field(stat, "packetsLost"), Number(0)),
                  packetsReceived |-> OrElse(Field(stat, "packetsReceived"), Number(0))]
    IN  [bitrate |-> Bitrate(prev, stat),
         jitter |-> Jitter(stat),
         packetLossRate |-> PacketLossRate(media)] @@ media

\* report.video = {} and report.audio = {}: nothing was parsed
NoReport == [video |-> NoStat, audio |-> NoStat]

\* ---- the remote SDP: a text is the sequence of its lines, a line is
\* described by what the patterns of extractVideoParams look for in it:
\* whether it contains "m=video", the codec name it maps when it starts
\* with "a=rtpmap:<digits> " ("" when it does not), and the digits that
\* follow "profile-id=" in it ("" when there are none)

\* "m=video 9 UDP/TLS/RTP/SAVPF 96"
VideoLine == [video |-> TRUE, rtpmap |-> "", profileId |-> ""]

\* a line none of the patterns looks for, such as "c=IN IP4 0.0.0.0"
OtherLine == [video |-> FALSE, rtpmap |-> "", profileId |-> ""]

\* "a=rtpmap:96 H264/90000"
RtpmapH264Line == [video |-> FALSE, rtpmap |-> "H264/90000", profileId |-> ""]

\* "a=fmtp:96 profile-id=1"
ProfileIdLine == [video |-> FALSE, rtpmap |-> "", profileId |-> "1"]

SdpLines == {VideoLine, OtherLine, RtpmapH264Line, ProfileIdLine}

\* the remote SDP texts of up to MaxSdpLines lines
SdpTexts == UNION {[1..n -> SdpLines] : n \in 0..MaxSdpLines}

\* the positions where /m=video.*\r?\n.*\r?\na=rtpmap:(\d+)\s+(\S+)/ matches:
\* a line with "m=video", one whole line, then a line that starts with
\* a=rtpmap
CodecMatches(sdp) ==
    {i \in 1..Len(sdp) : /\ sdp[i].video
                         /\ i + 2 <= Len(sdp)
                         /\ sdp[i + 2].rtpmap # ""}

\* the smallest number of a non-empty set of numbers
Least(S) == CHOOSE i \in S : \A j \in S : i <= j

\* params.codec of extractVideoParams(sdp): codecMatch[2] of the leftmost
\* match ("" for undefined)
ExtractCodec(sdp) ==
    IF CodecMatches(sdp) = {} THEN "" ELSE sdp[Least(CodecMatches(sdp)) + 2].rtpmap

\* params.h265ProfileId of extractVideoParams(sdp): parseInt of the digits
\* after the first "profile-id="
ExtractH265ProfileId(sdp) ==
    IF \E i \in 1..Len(sdp) : sdp[i].profileId # "" THEN Number(1) ELSE Undefined

\* the words the setRemoteDescription wrapper looks for that
\* codec.toLowerCase() includes
CodecWords(codec) ==
    IF codec = "H264/90000" THEN {"h264"}
    ELSE IF codec = "H265/90000" THEN {"h265"}
    ELSE IF codec = "VP8/90000" THEN {"vp8"}
    ELSE IF codec = "VP9/90000" THEN {"vp9"}
    ELSE IF codec = "AV1/90000" THEN {"av1"}
    ELSE {}

\* the codecType the setRemoteDescription wrapper sets for a codec name
CodecIdentity(codec) ==
    IF CodecWords(codec) \cap {"h265", "hevc"} # {} THEN "H265/HEVC"
    ELSE IF CodecWords(codec) \cap {"h264", "avc"} # {} THEN "H264/AVC"
    ELSE IF "vp8" \in CodecWords(codec) THEN "VP8"
    ELSE IF "vp9" \in CodecWords(codec) THEN "VP9"
    ELSE IF "av1" \in CodecWords(codec) THEN "AV1"
    ELSE codec

\* the wrapper without the profile-id branch
CodecTypeByNameOnly(sdp) ==
    IF ExtractCodec(sdp) # "" THEN CodecIdentity(ExtractCodec(sdp)) ELSE codecType

\* this.state.codecType after the setRemoteDescription wrapper ran for sdp
CodecTypeAfter(sdp) ==
    IF ExtractCodec(sdp) # "" THEN CodecIdentity(ExtractCodec(sdp))
    ELSE IF ExtractH265ProfileId(sdp) # Undefined THEN "H265/HEVC"
    ELSE codecType

\* this.sdk.pc.setRemoteDescription(desc), called by play() of the current
\* adapter with the answer of the server
SetRemoteDescription(sdp) ==
    /\ playState = "pending"
    /\ sdpRemote' = sdp
    /\ codecType' = CodecTypeAfter(sdp)
    /\ UNCHANGED <<codecTimers, codecInFlight>>
    /\ UNCHANGED <<lifecycleVars, samplerVars, monitorVars>>

\* how a getStats() call of updateDebugInfo can settle
Outcomes == {"media", "empty", "rejected"}

\* this.lastStats.video / .audio before any snapshot was retained
NoSnapshot == [pc |-> 0, ts |-> 0, rtp |-> NoStat]

\* what a resolved getStats() holds: "media" is inbound-rtp video and audio
\* stats and a succeeded candidate pair, "empty" is none of them
Holds(outcome) ==
    [video |-> outcome = "media", audio |-> outcome = "media", pair |-> outcome = "media"]

\* the samples updateStatsHistory(report) pushes for a report parsed from
\* stats: fps, videoFrameCallbackFps, framesDecoded and framesDropped come
\* from report.video, bitrate from report.audio, rtt from report.connection;
\* packetLoss, jitter and keyFrameInterval are never pushed
Pushes(stats) ==
    [fps |-> stats.video, videoFrameCallbackFps |-> stats.video,
     framesDecoded |-> stats.video, framesDropped |-> stats.video,
     bitrate |-> stats.audio, rtt |-> stats.pair,
     packetLoss |-> FALSE, jitter |-> FALSE, keyFrameInterval |-> FALSE]

\* updateStatsHistory(report): every sample is named by the snapshot it was
\* derived from
UpdateStatsHistory(stats) ==
    /\ statsHistory' =
          [b \in DOMAIN statsHistory |->
              IF Pushes(stats)[b] THEN Push(statsHistory[b], stats.snap)
              ELSE statsHistory[b]]
    /\ pushLog' =
          [b \in DOMAIN pushLog |->
              IF Pushes(stats)[b] THEN Append(pushLog[b], stats.snap) ELSE pushLog[b]]

\* currentFps of parseStats: videoFrameCallbackFps || report.video.fps
CurrentFps(stats) ==
    IF videoFrameCallbackFps # 0 THEN videoFrameCallbackFps ELSE stats.fps

\* the capacity of keyFrameTimestamps
MaxKeyFrameIntervals == 10

\* keyFramesDelta of parseStats
KeyFramesDelta(stat) ==
    Minus(OrElse(Field(stat, "keyFramesDecoded"), Number(0)),
          OrElse(lastKeyFrameCount, Number(0)))

\* keyFrameTimestamps.push(keyFrameInterval), then shift() over the capacity
PushInterval(intervals, keyFrameInterval) ==
    LET pushed == Append(intervals, keyFrameInterval)
    IN  IF Len(pushed) > MaxKeyFrameIntervals THEN Tail(pushed) ELSE pushed

\* "Track key frame intervals" of parseStats: Date.now() is the time of the
\* model, in seconds
TrackKeyFrames(stats) ==
    IF Positive(KeyFramesDelta(stats.rtp))
    THEN /\ keyFrameTimestamps' =
               IF lastKeyFrameTime > 0
               THEN PushInterval(keyFrameTimestamps, clock - lastKeyFrameTime)
               ELSE keyFrameTimestamps
         /\ lastKeyFrameTime' = clock
         /\ lastKeyFrameCount' = Field(stats.rtp, "keyFramesDecoded")
         /\ lastKeyFramePc' = stats.snap.pc
    ELSE UNCHANGED <<keyFrameTimestamps, lastKeyFrameTime, lastKeyFrameCount,
                     lastKeyFramePc>>

\* the stat parseStats retains of a snapshot
Retained(stats) == stats.snap @@ [rtp |-> stats.rtp]

\* parseStats(stats): the report is built from the inbound-rtp stats and the
\* retained ones, key frames are tracked and the maximum is raised to
\* currentFps in the video branch, and the inbound-rtp stats of the snapshot
\* become the retained ones
ParseStats(stats) ==
    /\ report' =
          [video |-> IF stats.video THEN VideoReport(lastStats.video.rtp, stats.rtp)
                     ELSE NoReport.video,
           audio |-> IF stats.audio THEN AudioReport(lastStats.audio.rtp, stats.rtp)
                     ELSE NoReport.audio]
    /\ prevStats' = [video |-> IF stats.video THEN lastStats.video.rtp ELSE prevStats.video,
                     audio |-> IF stats.audio THEN lastStats.audio.rtp ELSE prevStats.audio]
    /\ IF stats.video
       THEN TrackKeyFrames(stats)
       ELSE UNCHANGED <<keyFrameTimestamps, lastKeyFrameTime, lastKeyFrameCount,
                        lastKeyFramePc>>
    /\ lastStats' = [video |-> IF stats.video THEN Retained(stats) ELSE lastStats.video,
                     audio |-> IF stats.audio THEN Retained(stats) ELSE lastStats.audio]
    /\ maxFpsAchieved' =
          IF stats.video /\ CurrentFps(stats) > maxFpsAchieved
          THEN CurrentFps(stats)
          ELSE maxFpsAchieved

\* sequence s without its i-th element
Without(s, i) == SubSeq(s, 1, i - 1) \o SubSeq(s, i + 1, Len(s))

\* the stats a resolved getStats() delivers for the i-th unresolved call:
\* the browser takes the snapshots in the order of the calls, so a snapshot
\* is timestamped by the time of its call; fps is stat.framesPerSecond || 0;
\* the counters of the inbound-rtp stats are not looked at
Stats(i, outcome, framesPerSecond) ==
    [snap |-> [pc |-> statsRequests[i].pc, ts |-> statsRequests[i].at],
     fps |-> framesPerSecond, rtp |-> NoStat] @@ Holds(outcome)

\* updateDebugInfo after its await, with a catch block that stops the
\* monitoring
GetStatsSettlesStops(i, outcome) ==
    /\ i \in 1..Len(statsRequests)
    /\ statsRequests' = Without(statsRequests, i)
    /\ IF outcome = "rejected"
       THEN /\ lastReject' = clock
            /\ intervalTimers' = 0
            /\ debugInterval' = FALSE
            /\ UNCHANGED <<lastStats, statsHistory, pushLog, maxFpsAchieved, metricVars>>
       ELSE /\ ParseStats(Stats(i, outcome, 0))
            /\ UpdateStatsHistory(Stats(i, outcome, 0))
            /\ UNCHANGED <<lastReject, debugInterval, intervalTimers>>
    /\ UNCHANGED <<debugPanel, clock, chainVars, videoFrameCallbackFps>>
    /\ UNCHANGED <<lifecycleVars, codecVars>>

\* getStats() called by updateDebugInfo settles; updateDebugInfo continues
\* after its await.  The promises settle in any order
GetStatsSettlesWith(i, outcome, framesPerSecond) ==
    /\ i \in 1..Len(statsRequests)
    /\ statsRequests' = Without(statsRequests, i)
    /\ IF outcome = "rejected"
       THEN /\ lastReject' = clock
            /\ UNCHANGED <<lastStats, statsHistory, pushLog, maxFpsAchieved, metricVars>>
       ELSE /\ ParseStats(Stats(i, outcome, framesPerSecond))
            /\ UpdateStatsHistory(Stats(i, outcome, framesPerSecond))
            /\ UNCHANGED lastReject
    /\ UNCHANGED <<debugPanel, debugInterval, intervalTimers, clock, chainVars,
                   videoFrameCallbackFps>>
    /\ UNCHANGED <<lifecycleVars, codecVars>>

\* getStats() called by updateDebugInfo resolves with inbound-rtp video and
\* audio stats that carry the fields of rtp
GetStatsResolves(i, rtp) ==
    /\ i \in 1..Len(statsRequests)
    /\ statsRequests' = Without(statsRequests, i)
    /\ ParseStats([Stats(i, "media", 0) EXCEPT !.rtp = rtp])
    /\ UpdateStatsHistory([Stats(i, "media", 0) EXCEPT !.rtp = rtp])
    /\ UNCHANGED <<debugPanel, debugInterval, intervalTimers, clock, lastReject,
                   chainVars, videoFrameCallbackFps>>
    /\ UNCHANGED <<lifecycleVars, codecVars>>

\* the same for a snapshot whose video stats report no framesPerSecond
GetStatsSettles(i, outcome) == GetStatsSettlesWith(i, outcome, 0)

\* the frame rates the presentation monitor measures and snapshots report
FpsValues == {0, 30, 60}

\* the variables onFrame closes over when monitorVideoTrack registers it:
\* frameCount = 0, lastTime = performance.now(), lastPresentedFrames = 0
NewChain == [frameCount |-> 0, lastTime |-> now, lastPresentedFrames |-> 0,
             registeredAt |-> presentedFrames]

\* pc.ontrack of the current adapter fires with its video track:
\* monitorVideoTrack(track) registers onFrame in a browser that has
\* requestVideoFrameCallback, and does nothing in any other
TrackEvent ==
    /\ trackSeen < sdk
    /\ frameCallbacks < MaxChains
    /\ trackSeen' = sdk
    /\ frameCallbacks' = IF hasFrameCallback THEN frameCallbacks + 1 ELSE frameCallbacks
    /\ chains' = IF hasFrameCallback THEN Append(chains, NewChain) ELSE chains
    /\ UNCHANGED <<now, presentedFrames, frameDeltas, hasFrameCallback>>
    /\ UNCHANGED <<videoFrameCallbackFps, maxFpsAchieved>>
    /\ UNCHANGED <<lifecycleVars, codecVars, samplerVars>>

\* onFrame that stores the rate it measured as the maximum
OnFrameStoresLast(second, fps) ==
    /\ frameCallbacks > 0
    /\ IF second
       THEN /\ videoFrameCallbackFps' = fps
            /\ maxFpsAchieved' = fps
       ELSE UNCHANGED <<videoFrameCallbackFps, maxFpsAchieved>>
    /\ frameCallbacks' = IF isPlaying THEN frameCallbacks ELSE frameCallbacks - 1
    /\ chains' = IF isPlaying THEN chains ELSE Tail(chains)
    /\ UNCHANGED <<now, presentedFrames, frameDeltas, hasFrameCallback, trackSeen>>
    /\ UNCHANGED <<lifecycleVars, codecVars, samplerVars>>

\* onFrame(now, metadata), a registered callback of a chain, with the
\* measurement left open: second says that elapsed >= 1000, fps is
\* frameCount * 1000 / elapsed; the callback registers itself again while
\* this.state.isPlaying
OnFrame(second, fps) ==
    /\ frameCallbacks > 0
    /\ IF second
       THEN /\ videoFrameCallbackFps' = fps
            /\ maxFpsAchieved' = IF fps > maxFpsAchieved THEN fps ELSE maxFpsAchieved
       ELSE UNCHANGED <<videoFrameCallbackFps, maxFpsAchieved>>
    /\ frameCallbacks' = IF isPlaying THEN frameCallbacks ELSE frameCallbacks - 1
    /\ chains' = IF isPlaying THEN chains ELSE Tail(chains)
    /\ UNCHANGED <<now, presentedFrames, frameDeltas, hasFrameCallback, trackSeen>>
    /\ UNCHANGED <<lifecycleVars, codecVars, samplerVars>>

\* the length of a measurement interval of onFrame, in ms
MeasurementInterval == 1000

\* the times between two calls of onFrame, in ms
FrameGaps == {500, 1000}

\* the frames presented since a chain was registered or last called
PresentedSince(chain, total) ==
    total - (IF chain.lastPresentedFrames = 0 THEN chain.registeredAt
             ELSE chain.lastPresentedFrames)

\* onFrame that measures only when more than the interval has elapsed
OnFrameAtAfterInterval(c, gap, frames) ==
    /\ c \in 1..Len(chains)
    /\ presentedFrames + frames <= MaxPresented
    /\ LET total      == presentedFrames + frames
           frameDelta == total - chains[c].lastPresentedFrames
           frameCount == chains[c].frameCount + frameDelta
           elapsed    == (now + gap) - chains[c].lastTime
           measures   == elapsed > MeasurementInterval
           fps        == (frameCount * 1000) \div elapsed
           again      == [chains[c] EXCEPT
                            !.frameCount = IF measures THEN 0 ELSE frameCount,
                            !.lastTime = IF measures THEN now + gap ELSE @,
                            !.lastPresentedFrames = total]
       IN  /\ measures => (frameCount * 1000) % elapsed = 0
           /\ now' = now + gap
           /\ presentedFrames' = total
           /\ frameDeltas' = [counted |-> frameDelta,
                              presented |-> PresentedSince(chains[c], total)]
           /\ IF measures
              THEN /\ videoFrameCallbackFps' = fps
                   /\ maxFpsAchieved' = IF fps > maxFpsAchieved THEN fps ELSE maxFpsAchieved
              ELSE UNCHANGED <<videoFrameCallbackFps, maxFpsAchieved>>
           /\ chains' = IF isPlaying THEN [chains EXCEPT ![c] = again]
                        ELSE Without(chains, c)
           /\ frameCallbacks' = IF isPlaying THEN frameCallbacks ELSE frameCallbacks - 1
    /\ UNCHANGED <<hasFrameCallback, trackSeen>>
    /\ UNCHANGED <<lifecycleVars, codecVars, samplerVars>>

\* onFrame(now, metadata) of chain c, called gap ms after the last call of
\* any chain with frames more frames presented (metadata.presentedFrames is
\* the total of the video element).  The gaps and frames drawn are those
\* whose rate is a whole number
OnFrameAt(c, gap, frames) ==
    /\ c \in 1..Len(chains)
    /\ presentedFrames + frames <= MaxPresented
    /\ LET total      == presentedFrames + frames
           frameDelta == total - chains[c].lastPresentedFrames
           frameCount == chains[c].frameCount + frameDelta
           elapsed    == (now + gap) - chains[c].lastTime
           measures   == elapsed >= MeasurementInterval
           fps        == (frameCount * 1000) \div elapsed
           again      == [chains[c] EXCEPT
                            !.frameCount = IF measures THEN 0 ELSE frameCount,
                            !.lastTime = IF measures THEN now + gap ELSE @,
                            !.lastPresentedFrames = total]
       IN  /\ measures => (frameCount * 1000) % elapsed = 0
           /\ now' = now + gap
           /\ presentedFrames' = total
           /\ frameDeltas' = [counted |-> frameDelta,
                              presented |-> PresentedSince(chains[c], total)]
           /\ IF measures
              THEN /\ videoFrameCallbackFps' = fps
                   /\ maxFpsAchieved' = IF fps > maxFpsAchieved THEN fps ELSE maxFpsAchieved
              ELSE UNCHANGED <<videoFrameCallbackFps, maxFpsAchieved>>
           /\ chains' = IF isPlaying THEN [chains EXCEPT ![c] = again]
                        ELSE Without(chains, c)
           /\ frameCallbacks' = IF isPlaying THEN frameCallbacks ELSE frameCallbacks - 1
    /\ UNCHANGED <<hasFrameCallback, trackSeen>>
    /\ UNCHANGED <<lifecycleVars, codecVars, samplerVars>>

\* ------------------------------------------------------------ specification

\* the state after new WebRTCPlayer() in a browser that has
\* requestVideoFrameCallback (support) or has not: init() has run
\* startPlaying() up to its await
Constructed(support) ==
    /\ sdk = 1
    /\ pcState = "new"
    /\ playState = "pending"
    /\ stalePlays = 0
    /\ oldPcsLive = FALSE
    /\ openPcs = 1
    /\ reconnectAttempts = 0
    /\ reconnectTimers = 0
    /\ connectionQuality = "connecting"
    /\ statusText = "Connecting..."
    /\ errorBox = ""
    /\ loading = TRUE
    /\ isPlaying = FALSE
    /\ codecTimers = 0
    /\ codecInFlight = 0
    /\ sdpRemote = <<>>
    /\ codecType = "null"
    /\ debugPanel = FALSE
    /\ debugInterval = FALSE
    /\ intervalTimers = 0
    /\ clock = 0
    /\ statsRequests = <<>>
    /\ lastStats = [video |-> NoSnapshot, audio |-> NoSnapshot]
    /\ statsHistory = [fps |-> <<>>, bitrate |-> <<>>, packetLoss |-> <<>>,
                       jitter |-> <<>>, rtt |-> <<>>, framesDecoded |-> <<>>,
                       framesDropped |-> <<>>, keyFrameInterval |-> <<>>,
                       videoFrameCallbackFps |-> <<>>]
    /\ pushLog = statsHistory
    /\ lastReject = 0
    /\ prevStats = [video |-> NoStat, audio |-> NoStat]
    /\ report = NoReport
    /\ lastKeyFrameCount = Number(0)
    /\ lastKeyFrameTime = 0
    /\ keyFrameTimestamps = <<>>
    /\ lastKeyFramePc = 0
    /\ frameCallbacks = 0
    /\ videoFrameCallbackFps = 0
    /\ maxFpsAchieved = 0
    /\ chains = <<>>
    /\ now = 0
    /\ presentedFrames = 0
    /\ frameDeltas = [counted |-> 0, presented |-> 0]
    /\ hasFrameCallback = support
    /\ trackSeen = 0
    /\ run = 0
    /\ everConnected = FALSE

\* the browsers of today have requestVideoFrameCallback
Init == Constructed(TRUE)

\* the connection lifecycle: the debug panel stays closed
Next ==
    \/ \E to \in PcStates : ConnectionStateChange(to)
    \/ StaleConnectionStateChange
    \/ ReconnectTimer
    \/ PlaySettles(TRUE)
    \/ \E error \in PlainRejections : PlayRejects(error)
    \/ StalePlaySettles(TRUE)
    \/ \E error \in PlainRejections : StalePlayRejects(error)
    \/ CodecTimer
    \/ CodecStatsSettle

Spec == Init /\ [][Next]_vars

\* an event that schedules a reconnect arrives only when no reconnect timer
\* is pending: such events are at least RECONNECT_DELAY apart
Spaced(state) ==
    state \in {"disconnected", "failed"} => reconnectTimers = 0

\* the connection lifecycle with the events spaced
NextSpaced ==
    \/ \E to \in PcStates : Spaced(to) /\ ConnectionStateChange(to)
    \/ Spaced(pcState) /\ StaleConnectionStateChange
    \/ ReconnectTimer
    \/ PlaySettles(TRUE)
    \/ StalePlaySettles(TRUE)
    \/ CodecTimer
    \/ CodecStatsSettle

SpecSpaced == Init /\ [][NextSpaced]_vars

\* the timers of the page fire: a pending reconnect timer eventually runs
LiveSpec == Spec /\ WF_vars(ReconnectTimer)

\* the bound on the reconnects of the sampler's specification: an event that
\* schedules a reconnect needs an adapter number left for it
StatEventWithinBounds(state) ==
    state \in {"disconnected", "failed"} => sdk + reconnectTimers < MaxStatSessions

\* the sampler beside the lifecycle, over fewer adapters; the timers of
\* logCodecInfo stay pending
NextStats ==
    \/ \E to \in PcStates : StatEventWithinBounds(to) /\ ConnectionStateChange(to)
    \/ StatEventWithinBounds(pcState) /\ StaleConnectionStateChange
    \/ ReconnectTimer
    \/ PlaySettles(TRUE)
    \/ \E error \in PlainRejections : PlayRejects(error)
    \/ StalePlaySettles(TRUE)
    \/ \E error \in PlainRejections : StalePlayRejects(error)
    \/ ToggleDebugPanel
    \/ DebugTabClick
    \/ DebugIntervalTick
    \/ \E i \in 1..MaxInFlight, outcome \in Outcomes : GetStatsSettles(i, outcome)

SpecStats == Init /\ [][NextStats]_vars

\* the lifecycle over fewer adapters, with every rejection value of play()
NextErrors ==
    \/ \E to \in PcStates : StatEventWithinBounds(to) /\ ConnectionStateChange(to)
    \/ StatEventWithinBounds(pcState) /\ StaleConnectionStateChange
    \/ ReconnectTimer
    \/ \E ok \in BOOLEAN : PlaySettles(ok)
    \/ \E ok \in BOOLEAN : StalePlaySettles(ok)
    \/ CodecTimer
    \/ CodecStatsSettle

SpecErrors == Init /\ [][NextErrors]_vars

\* a session that connects and is sampled once a second for a long time,
\* every sample holding media stats
NextHistory ==
    \/ \E to \in {"connecting", "connected"} : ConnectionStateChange(to)
    \/ PlaySettles(TRUE)
    \/ ToggleDebugPanel
    \/ SteadyIntervalTick
    \/ \E i \in 1..MaxInFlight : GetStatsSettles(i, "media")

SpecHistory == Init /\ [][NextHistory]_vars

\* the presentation monitor beside the sampler and the reconnects, one
\* retrieval at a time, every sample holding media stats
NextMonitor ==
    \/ \E to \in PcStates : StatEventWithinBounds(to) /\ ConnectionStateChange(to)
    \/ ReconnectTimer
    \/ PlaySettles(TRUE)
    \/ TrackEvent
    \/ \E second \in BOOLEAN, fps \in FpsValues : OnFrame(second, fps)
    \/ InFlight = 0 /\ ToggleDebugPanel
    \/ InFlight = 0 /\ DebugIntervalTick
    \/ \E i \in 1..MaxInFlight, fps \in FpsValues : GetStatsSettlesWith(i, "media", fps)

SpecMonitor == Init /\ [][NextMonitor]_vars

\* the values a field of an inbound-rtp stat can hold: up to MaxCount steps
\* of the field's unit
FieldValues(unit) == {Fraction(k * unit, 1) : k \in 0..MaxCount}

\* jitter is reported in seconds: steps of 5 ms
JitterValues == {Fraction(5 * k, 1000) : k \in 0..MaxCount}

\* the stats that have each field of names or lack it, a field named in
\* names holding a value of values[name]
StatsOver(names, values) ==
    UNION {{stat \in [present -> UNION {values[n] : n \in present}] :
               \A n \in present : stat[n] \in values[n]} : present \in SUBSET names}

\* the inbound-rtp stats the metrics are parsed from: the fields of one
\* metric are present or absent, the fields of the others are absent
RtpValues ==
    StatsOver({"timestamp", "bytesReceived"},
              [timestamp |-> FieldValues(500), bytesReceived |-> FieldValues(1000)])
    \cup StatsOver({"framesDecoded", "framesDropped"},
                   [framesDecoded |-> FieldValues(1), framesDropped |-> FieldValues(1)])
    \cup StatsOver({"packetsLost", "packetsReceived"},
                   [packetsLost |-> FieldValues(1), packetsReceived |-> FieldValues(1)])
    \cup StatsOver({"jitter"}, [jitter |-> JitterValues])

\* the sampler alone, one retrieval at a time, over every stat of RtpValues
NextMetrics ==
    \/ InFlight = 0 /\ ToggleDebugPanel
    \/ InFlight = 0 /\ DebugIntervalTick
    \/ \E i \in 1..MaxInFlight, rtp \in RtpValues : GetStatsResolves(i, rtp)

SpecMetrics == Init /\ [][NextMetrics]_vars

\* the keyFramesDecoded a snapshot of the i-th unresolved call can report:
\* the counter of a peer connection starts at 0 and never goes down, so it
\* is at least what the retained snapshot of the same connection reported
KeyFrameCounts(i) ==
    IF i \in 1..Len(statsRequests) /\ statsRequests[i].pc = lastStats.video.pc
    THEN {k \in 0..MaxKeyFrames :
             k >= OrElse(Field(lastStats.video.rtp, "keyFramesDecoded"), Number(0)).num}
    ELSE 0..MaxKeyFrames

\* the sampler across reconnects, one retrieval at a time, the snapshots
\* reporting the key frames decoded by their connection
NextKeyFrames ==
    \/ \E to \in PcStates : StatEventWithinBounds(to) /\ ConnectionStateChange(to)
    \/ ReconnectTimer
    \/ PlaySettles(TRUE)
    \/ InFlight = 0 /\ ToggleDebugPanel
    \/ clock < MaxKeySamples /\ SteadyIntervalTick
    \/ \E i \in 1..MaxInFlight : \E k \in KeyFrameCounts(i) :
          GetStatsResolves(i, [keyFramesDecoded |-> Number(k)])

SpecKeyFrames == Init /\ [][NextKeyFrames]_vars

\* the negotiation alone: the remote description is applied, once or again,
\* with every text of SdpTexts
NextSdp == \E sdp \in SdpTexts : SetRemoteDescription(sdp)

SpecSdp == Init /\ [][NextSdp]_vars

\* the presentation monitor with its measurement, beside the reconnects
NextFrames ==
    \/ \E to \in PcStates : StatEventWithinBounds(to) /\ ConnectionStateChange(to)
    \/ ReconnectTimer
    \/ PlaySettles(TRUE)
    \/ TrackEvent
    \/ \E c \in 1..MaxChains, gap \in FrameGaps, frames \in 1..MaxBurst :
          OnFrameAt(c, gap, frames)

SpecFrames == Init /\ [][NextFrames]_vars

\* a browser without requestVideoFrameCallback
InitWithoutFrameCallback == Constructed(FALSE)

\* the sampler beside the reconnects and the track events, one retrieval at
\* a time, every sample holding media stats; no onFrame is ever registered
NextWithoutFrameCallback ==
    \/ \E to \in PcStates : StatEventWithinBounds(to) /\ ConnectionStateChange(to)
    \/ ReconnectTimer
    \/ PlaySettles(TRUE)
    \/ TrackEvent
    \/ InFlight = 0 /\ ToggleDebugPanel
    \/ InFlight = 0 /\ DebugIntervalTick
    \/ \E i \in 1..MaxInFlight, fps \in FpsValues : GetStatsSettlesWith(i, "media", fps)

SpecWithoutFrameCallback == InitWithoutFrameCallback /\ [][NextWithoutFrameCallback]_vars

\* ------------------------------------------------------------------- claims

\* C1: in every reachable state reconnectAttempts lies between 0 and
\* MAX_RECONNECT_ATTEMPTS; attemptReconnect never raises it above the ceiling.
C1_CounterWithinCeiling ==
    reconnectAttempts \in 0..MAX_RECONNECT_ATTEMPTS

\* attemptReconnect has been called with the counter at the ceiling
C1_Witness ==
    /\ reconnectAttempts = MAX_RECONNECT_ATTEMPTS
    /\ errorBox = LOST_MESSAGE

\* a step that enters Connected: the listener reads "connected", or the
\* connection procedure of startPlaying completes
ConnectedTransition ==
    \/ ConnectionStateChange("connected")
    \/ StaleConnectionStateChange /\ pcState = "connected"
    \/ PlaySettles(TRUE)
    \/ StalePlaySettles(TRUE)

\* C2: every step that enters Connected, by the "connected" event or by the
\* completion of play() in startPlaying, leaves reconnectAttempts at 0.
C2_ConnectedResetsCounter ==
    [][ConnectedTransition => reconnectAttempts' = 0]_vars

\* C3: after N consecutive "disconnected"/"failed" events with no Connected
\* transition in between, the counter having been 0 at the start of the run,
\* reconnectAttempts equals min(N, MAX_RECONNECT_ATTEMPTS).
C3_CounterIsMinOfRun ==
    run >= 0 =>
        reconnectAttempts =
            IF run < MAX_RECONNECT_ATTEMPTS THEN run ELSE MAX_RECONNECT_ATTEMPTS

\* a run longer than the ceiling
C3_Witness ==
    /\ run > MAX_RECONNECT_ATTEMPTS
    /\ reconnectAttempts = MAX_RECONNECT_ATTEMPTS

\* C4 as stated: the 5th consecutive event of a run reports the terminal
\* error and schedules no reconnect timer.
C4_FifthEventIsTerminal ==
    [][(run = MAX_RECONNECT_ATTEMPTS - 1 /\ run' = MAX_RECONNECT_ATTEMPTS) =>
          /\ errorBox' = LOST_MESSAGE
          /\ reconnectTimers' = reconnectTimers]_vars

\* C4 amended: each of the first 5 consecutive events of a run schedules one
\* reconnect timer and reports no error; the 6th and every later event
\* reports the terminal error, leaves the status "bad" and schedules no
\* timer, so that no 6th reconnect is scheduled within the run.
C4_SixthEventIsTerminal ==
    [][(run >= 0 /\ run' = run + 1) =>
          IF run' <= MAX_RECONNECT_ATTEMPTS
          THEN /\ reconnectTimers' = reconnectTimers + 1
               /\ errorBox' = errorBox
               /\ statusText' = "Reconnecting..."
          ELSE /\ reconnectTimers' = reconnectTimers
               /\ errorBox' = LOST_MESSAGE
               /\ connectionQuality' = "bad"]_vars

\* the 6th consecutive event of a run has been handled
C4_Witness ==
    /\ run = MAX_RECONNECT_ATTEMPTS + 1
    /\ errorBox = LOST_MESSAGE
    /\ connectionQuality = "bad"

\* C5: once the terminal error is reported, no startPlaying starts, no
\* reconnect timer is pending and the counter is not reset to 0.
C5_FailedIsTerminal ==
    [][errorBox = LOST_MESSAGE =>
          /\ sdk' = sdk
          /\ reconnectTimers = 0
          /\ reconnectAttempts' # 0]_vars

\* C6: while no peer connection has reported "connected", at most
\* MAX_RECONNECT_ATTEMPTS automatic attempts have been started (every
\* adapter after the first is constructed by a reconnect timer).
C6_RetriesBounded ==
    ~everConnected => sdk - 1 <= MAX_RECONNECT_ATTEMPTS

\* a "disconnected"/"failed" event is handled
DisconnectEvent ==
    \/ ConnectionStateChange("disconnected")
    \/ ConnectionStateChange("failed")
    \/ StaleConnectionStateChange /\ pcState \in {"disconnected", "failed"}

\* C7: every "disconnected"/"failed" event handled below the ceiling sets a
\* reconnect timer; a timer leaves the pending ones only by running
\* startPlaying on a new adapter with a new peer connection and a new play();
\* and every timer set eventually runs.
C7_ReconnectRuns ==
    /\ [][(DisconnectEvent /\ reconnectAttempts < MAX_RECONNECT_ATTEMPTS) =>
             reconnectTimers' = reconnectTimers + 1]_vars
    /\ [][reconnectTimers' < reconnectTimers =>
             /\ reconnectTimers' = reconnectTimers - 1
             /\ sdk' = sdk + 1
             /\ openPcs' = openPcs + 1
             /\ pcState' = "new"
             /\ playState' = "pending"]_vars
    /\ \A n \in 2..MaxSessions : (sdk + reconnectTimers >= n) ~> (sdk >= n)

\* a reconnect set by an event has run startPlaying
C7_Witness ==
    /\ sdk = 2
    /\ reconnectTimers = 0
    /\ pcState = "new"
    /\ playState = "pending"

\* C8: at most one peer connection created by startPlaying is open.
C8_OneOpenAdapter ==
    openPcs <= 1

\* C9: a getStats() result of a replaced adapter changes neither lastStats
\* nor statsHistory when it resolves.
C9_StaleSnapshotDropped ==
    [][\A i \in 1..Len(statsRequests) :
          \A outcome \in Outcomes :
             (GetStatsSettles(i, outcome) /\ statsRequests[i].pc # sdk) =>
                UNCHANGED <<lastStats, statsHistory>>]_vars

\* C10: at most one getStats() call is unresolved at any time.
C10_OneGetStatsInFlight ==
    InFlight <= 1

\* C11: after any sequence of debug-panel toggles an interval timer is pending
\* exactly when the panel is visible, at most one is pending, and no
\* timer-driven tick starts while the panel is closed.
C11_IntervalFollowsPanel ==
    [][/\ intervalTimers' = (IF debugPanel' THEN 1 ELSE 0)
       /\ debugInterval' = debugPanel'
       /\ DebugIntervalTick => debugPanel]_vars

\* the panel was opened, which took a sample, and closed again by
\* stopDebugMonitoring
C11_Witness ==
    /\ ~debugPanel
    /\ ~debugInterval
    /\ intervalTimers = 0
    /\ clock >= 1

\* C12: when getStats() rejects during a sampling tick the tick is skipped:
\* lastStats, statsHistory and the interval timer are left as they were, so
\* the next tick of the timer still runs.
C12_RejectionSkipsTick ==
    [][\A i \in 1..Len(statsRequests) :
          GetStatsSettles(i, "rejected") =>
             /\ UNCHANGED <<lastStats, statsHistory, debugPanel, debugInterval,
                            intervalTimers>>
             /\ statsRequests' = Without(statsRequests, i)]_vars

\* a tick was skipped by a rejection, and a getStats() called after it was
\* resolved and committed while the timer is still running
C12_Witness ==
    /\ lastReject > 0
    /\ lastStats.video.ts > lastReject
    /\ statsHistory.fps # <<>>
    /\ intervalTimers = 1

\* C13: every rejection of the connection procedure of startPlaying reaches
\* the user: showError has put one of the classified messages into the
\* error box and the status is "bad", whatever value play() rejected with.
C13_RejectionReachesUser ==
    [][(PlaySettles(FALSE) \/ StalePlaySettles(FALSE)) =>
          /\ errorBox' \in PlaybackMessages
          /\ connectionQuality' = "bad"]_vars

\* C14: every buffer of statsHistory holds at most STATS_HISTORY_SIZE entries,
\* however many samples were pushed.
C14_HistoryBounded ==
    \A b \in DOMAIN statsHistory : Len(statsHistory[b]) <= STATS_HISTORY_SIZE

\* more samples than the capacity were pushed and the buffer is full
C14_Witness ==
    /\ Len(pushLog.fps) > STATS_HISTORY_SIZE
    /\ Len(statsHistory.fps) = STATS_HISTORY_SIZE

\* the last n elements of s, or all of s when it has fewer
LastN(s, n) == SubSeq(s, (IF Len(s) > n THEN Len(s) - n ELSE 0) + 1, Len(s))

\* C15: after k pushes a buffer holds exactly the last min(k, 60) pushed
\* values in push order, oldest first; after 100 pushes it holds the pushes
\* 41..100.
C15_HistoryIsLastPushes ==
    \A b \in DOMAIN statsHistory :
        /\ statsHistory[b] = LastN(pushLog[b], STATS_HISTORY_SIZE)
        /\ Len(pushLog[b]) = 100 => statsHistory[b] = SubSeq(pushLog[b], 41, 100)

\* 100 samples were pushed, the oldest retained one being the 41st
C15_Witness ==
    /\ Len(pushLog.rtt) = 100
    /\ statsHistory.rtt[1] = pushLog.rtt[41]

\* C16: within each history buffer the entries are in the chronological order
\* of the snapshots they were derived from, under any interleaving of
\* overlapping updateDebugInfo calls.
C16_HistoryChronological ==
    \A b \in DOMAIN statsHistory :
        \A j, k \in 1..Len(statsHistory[b]) :
            j < k => statsHistory[b][j].ts <= statsHistory[b][k].ts

\* a step of the reconnect handling: attemptReconnect, the delayed
\* startPlaying, or play() settling either way
ReconnectStep ==
    \/ DisconnectEvent
    \/ ReconnectTimer
    \/ \E ok \in BOOLEAN : PlaySettles(ok)
    \/ \E ok \in BOOLEAN : StalePlaySettles(ok)

\* C17: reconnect handling leaves every statsHistory buffer unchanged.
C17_HistorySurvivesReconnect ==
    [][ReconnectStep => UNCHANGED statsHistory]_vars

\* samples of the first adapter are still in the history after a reconnect
\* whose play() has resolved
C17_Witness ==
    /\ sdk = 2
    /\ playState = "resolved"
    /\ statsHistory.fps # <<>>
    /\ statsHistory.fps[1].pc = 1

\* C18: once startPlaying has begun for a reconnect, lastStats.video and
\* lastStats.audio are empty.
C18_ReconnectResetsLastStats ==
    [][sdk' # sdk => lastStats' = [video |-> NoSnapshot, audio |-> NoSnapshot]]_vars

\* C19: the timestamp of the retained video and audio snapshot never
\* decreases.
C19_LastStatsAdvances ==
    [][/\ lastStats'.video.ts >= lastStats.video.ts
       /\ lastStats'.audio.ts >= lastStats.audio.ts]_vars

\* C20: performanceMetrics.maxFpsAchieved never decreases, over any
\* interleaving of presentation-monitor callbacks, sampling ticks and
\* reconnects.
C20_MaxFpsMonotonic ==
    [][maxFpsAchieved' >= maxFpsAchieved]_vars

\* after a reconnect the monitor measured a rate below the maximum, and a
\* sample of the new adapter was parsed, with the maximum still in place
C20_Witness ==
    /\ sdk = 2
    /\ maxFpsAchieved = 60
    /\ videoFrameCallbackFps = 30
    /\ lastStats.video.pc = 2

\* the integer a counter field is read as: field || 0
CounterOf(field) == IF IsNumber(field) THEN field.num ELSE 0

\* a report was parsed for the kind of media
Parsed(media) == media # NoStat

\* C21: when the framesDecoded and framesDropped of the parsed video
\* snapshot are not below those of the retained one, the frame-drop rate of
\* the report is droppedDelta / (decodedDelta + droppedDelta) x 100, lies
\* within [0, 100], and is 0 when decodedDelta + droppedDelta is 0.
C21_FrameDropRate ==
    LET prev == prevStats.video
        stat == lastStats.video.rtp
        decoded == CounterOf(Field(stat, "framesDecoded")) - CounterOf(Field(prev, "framesDecoded"))
        dropped == CounterOf(Field(stat, "framesDropped")) - CounterOf(Field(prev, "framesDropped"))
        rate == report.video.frameDropRate
    IN  (Parsed(report.video) /\ decoded >= 0 /\ dropped >= 0) =>
           /\ IsNumber(rate)
           /\ rate.num * (decoded + dropped) = dropped * 100 * rate.den
           /\ 0 <= rate.num /\ rate.num <= 100 * rate.den
           /\ (decoded + dropped = 0 => rate.num = 0)

\* one frame was decoded and one dropped since the retained snapshot: the
\* rate is 50
C21_Witness ==
    /\ Parsed(report.video)
    /\ CounterOf(Field(lastStats.video.rtp, "framesDecoded")) = CounterOf(Field(prevStats.video, "framesDecoded")) + 1
    /\ CounterOf(Field(lastStats.video.rtp, "framesDropped")) = CounterOf(Field(prevStats.video, "framesDropped")) + 1
    /\ Field(report.video, "frameDropRate") = Number(50)

\* the packet-loss rate shown for a parsed kind of media is
\* lost / (lost + received) x 100 to the two decimals shown
LossRateOf(media) ==
    LET lost == Field(media, "packetsLost").num
        received == Field(media, "packetsReceived").num
        rate == media.packetLossRate
    IN  Parsed(media) =>
           /\ IsNumber(rate)
           /\ 0 <= rate.num /\ rate.num <= 100 * rate.den
           /\ (received = 0 => rate.num = 0)
           /\ (received > 0 =>
                  200 * Abs(rate.num * (lost + received) - 100 * lost * rate.den)
                     <= rate.den * (lost + received))

\* C22: for non-negative cumulative packetsLost and packetsReceived the
\* packet-loss rate, video and audio, is lost / (lost + received) x 100 (to
\* the two decimals shown), lies within [0, 100], and is 0 when no packet
\* was received.
C22_PacketLossRate == LossRateOf(report.video) /\ LossRateOf(report.audio)

\* one packet lost, two received: 33.33
C22_Witness ==
    /\ Field(report.video, "packetsLost") = Number(1)
    /\ Field(report.video, "packetsReceived") = Number(2)
    /\ Field(report.video, "packetLossRate") = Fraction(3333, 100)
    /\ Field(report.audio, "packetLossRate") = Fraction(3333, 100)

\* the bitrate parsed for a kind of media from the retained stat prev and
\* the stat of the snapshot, both timestamped unless prev is no snapshot
BitrateOf(prev, stat, bitrate) ==
    LET bytes == Field(stat, "bytesReceived").num - CounterOf(Field(prev, "bytesReceived"))
        elapsed == IF prev = NoStat THEN 0
                   ELSE Field(stat, "timestamp").num - Field(prev, "timestamp").num
    IN  (/\ IsNumber(Field(stat, "bytesReceived")) /\ IsNumber(Field(stat, "timestamp"))
         /\ prev = NoStat \/ IsNumber(Field(prev, "timestamp"))) =>
           /\ IsNumber(bitrate)
           /\ TimeDiff(prev, stat) # Number(0)
           /\ IF elapsed = 0
              THEN bitrate = Number(bytes * 8)
              ELSE bitrate.num * elapsed = bytes * 8 * 1000 * bitrate.den

\* C23: the video and audio bitrate of a parsed report is (bytesReceived -
\* previous bytesReceived) x 8 / elapsedSeconds, elapsedSeconds being the
\* difference of the two timestamps in seconds, or 1 when that difference
\* is zero or there is no previous snapshot; nothing is divided by zero.
C23_Bitrate ==
    /\ Parsed(report.video) =>
          BitrateOf(prevStats.video, lastStats.video.rtp, report.video.bitrate)
    /\ Parsed(report.audio) =>
          BitrateOf(prevStats.audio, lastStats.audio.rtp, report.audio.bitrate)

\* 1000 bytes at t = 0, then 2000 bytes at t = 1000 ms: 8000 bits/sec
C23_Witness ==
    /\ Field(prevStats.video, "bytesReceived") = Number(1000)
    /\ Field(prevStats.video, "timestamp") = Number(0)
    /\ Field(lastStats.video.rtp, "bytesReceived") = Number(2000)
    /\ Field(lastStats.video.rtp, "timestamp") = Number(1000)
    /\ Field(report.video, "bitrate") = Number(8000)
    /\ Field(report.audio, "bitrate") = Number(8000)

\* C24: whichever fields of the inbound-rtp stat are absent, the bitrate,
\* measured frame rate, frame-drop rate and jitter of a parsed report are
\* numbers.
C24_MetricsAreNumbers ==
    /\ Parsed(report.video) =>
          /\ IsNumber(report.video.bitrate)
          /\ IsNumber(report.video.measuredFps)
          /\ IsNumber(report.video.frameDropRate)
          /\ IsNumber(report.video.jitter)
    /\ Parsed(report.audio) =>
          /\ IsNumber(report.audio.bitrate)
          /\ IsNumber(report.audio.jitter)

\* C25: an interval is recorded only between two key frames of one
\* session: the key-frame time it is measured from was set by a snapshot of
\* the peer connection whose snapshot is being parsed.
C25_NoIntervalAcrossSessions ==
    [][keyFrameTimestamps' # keyFrameTimestamps =>
          lastKeyFramePc = lastStats'.video.pc]_vars

\* C26: when the parsed snapshot reports more keyFramesDecoded than the
\* retained snapshot of the same peer connection and a key-frame time is
\* recorded, exactly one interval is appended to keyFrameTimestamps (the
\* oldest evicted beyond 10), also after a reconnect.
C26_IntervalPerKeyFrameIncrease ==
    [][(/\ lastStats.video.pc # 0
        /\ lastStats'.video.pc = lastStats.video.pc
        /\ IsNumber(Field(lastStats'.video.rtp, "keyFramesDecoded"))
        /\ Field(lastStats'.video.rtp, "keyFramesDecoded").num
              > OrElse(Field(lastStats.video.rtp, "keyFramesDecoded"), Number(0)).num
        /\ lastKeyFrameTime > 0) =>
          /\ Len(keyFrameTimestamps') =
                IF Len(keyFrameTimestamps) < MaxKeyFrameIntervals
                THEN Len(keyFrameTimestamps) + 1
                ELSE MaxKeyFrameIntervals
          /\ keyFrameTimestamps'[Len(keyFrameTimestamps')] = clock' - lastKeyFrameTime]_vars

\* C27: whenever the applied remote SDP contains the line
\* a=rtpmap:96 H264/90000, codecType is "H264/AVC".
C27_RtpmapH264IsAvc ==
    (\E i \in 1..Len(sdpRemote) : sdpRemote[i] = RtpmapH264Line) => codecType = "H264/AVC"

\* C28: whenever no codec name is recovered from the applied remote SDP and
\* the text contains profile-id=1, codecType is "H265/HEVC".
C28_ProfileIdIsHevc ==
    (/\ ExtractCodec(sdpRemote) = ""
     /\ \E i \in 1..Len(sdpRemote) : sdpRemote[i] = ProfileIdLine) =>
        codecType = "H265/HEVC"

\* an SDP with an unrecovered H264 mapping and profile-id=1 was applied
\* after one that had set "H264/AVC"
C28_Witness ==
    /\ sdpRemote = <<VideoLine, RtpmapH264Line, ProfileIdLine>>
    /\ codecType = "H265/HEVC"

\* C29: a frame callback that runs while playback is not playing (the
\* transport reported "disconnected" or "failed", or play() was rejected)
\* does not register itself again.  A callback that has run past a
\* one-second boundary is seen by the rate it stored.
C29_MonitorStopsWhenNotPlaying ==
    [][(/\ pcState \in {"disconnected", "failed"} \/ playState = "rejected"
        /\ videoFrameCallbackFps' # videoFrameCallbackFps) =>
          frameCallbacks' < frameCallbacks]_vars

\* C30: once a video track has arrived, a frame callback is pending
\* whenever the session is playing, whatever the order of the track event,
\* the first frame callback and the completion of play().
C30_CallbackPendingWhilePlaying ==
    (trackSeen # 0 /\ isPlaying) => frameCallbacks > 0

\* C31: an onFrame call that finds at least 1000 ms elapsed since the start
\* of its interval sets videoFrameCallbackFps to frameCount * 1000 / elapsed
\* (frameCount including the frames of this call), raises maxFpsAchieved to
\* it if it is greater, and starts a new interval at now with frameCount 0;
\* a call that finds less than 1000 ms elapsed changes neither
\* videoFrameCallbackFps nor maxFpsAchieved.
C31_FpsPerInterval ==
    [][\A c \in 1..Len(chains), gap \in FrameGaps, frames \in 1..MaxBurst :
          OnFrameAt(c, gap, frames) =>
             LET frameCount == chains[c].frameCount
                                  + (presentedFrames' - chains[c].lastPresentedFrames)
                 elapsed    == now' - chains[c].lastTime
             IN  IF elapsed >= 1000
                 THEN /\ videoFrameCallbackFps' * elapsed = frameCount * 1000
                      /\ maxFpsAchieved' =
                            IF videoFrameCallbackFps' > maxFpsAchieved
                            THEN videoFrameCallbackFps' ELSE maxFpsAchieved
                      /\ isPlaying => /\ chains'[c].frameCount = 0
                                      /\ chains'[c].lastTime = now'
                 ELSE /\ UNCHANGED <<videoFrameCallbackFps, maxFpsAchieved>>
                      /\ isPlaying => /\ chains'[c].frameCount = frameCount
                                      /\ chains'[c].lastTime = chains[c].lastTime]_vars

\* a call has just measured a rate below the maximum and started a new
\* interval
C31_Witness ==
    /\ now >= 2000
    /\ videoFrameCallbackFps > 0
    /\ maxFpsAchieved > videoFrameCallbackFps
    /\ \E c \in 1..Len(chains) : chains[c].frameCount = 0 /\ chains[c].lastTime = now

\* C40: the frames an onFrame call adds to frameCount are the frames
\* presented since its chain was registered or last called; the first call
\* of a chain does not add the frames the video element had presented before
\* the chain was registered.
C40_CountsOwnInterval ==
    frameDeltas.counted = frameDeltas.presented

\* C32: at most one onFrame callback is registered on the video element at
\* any time, also after a reconnect delivered a new video track.
C32_OneCallbackChain ==
    frameCallbacks <= 1

\* C33: in a browser without requestVideoFrameCallback no onFrame is ever
\* registered, videoFrameCallbackFps is never measured, and no sample is ever
\* pushed to statsHistory.videoFrameCallbackFps.
C33_NoSamplesWithoutFrameCallback ==
    ~hasFrameCallback =>
        /\ frameCallbacks = 0
        /\ videoFrameCallbackFps = 0
        /\ statsHistory.videoFrameCallbackFps = <<>>
        /\ pushLog.videoFrameCallbackFps = <<>>

\* C34: lastStats and statsHistory change only in a step of updateDebugInfo
\* that continues after its getStats() settled; an onFrame call changes
\* nothing of the player but performanceMetrics; and the step of
\* updateDebugInfo never changes videoFrameCallbackFps.
C34_ReadWriteSeparation ==
    /\ [][(lastStats' # lastStats \/ statsHistory' # statsHistory) =>
             Len(statsRequests') < Len(statsRequests)]_vars
    /\ [][(\E second \in BOOLEAN, fps \in FpsValues : OnFrame(second, fps)) =>
             UNCHANGED <<lifecycleVars, codecVars, samplerVars>>]_vars
    /\ [][Len(statsRequests') < Len(statsRequests) =>
             UNCHANGED videoFrameCallbackFps]_vars

\* samples were taken in the first session, a rate was measured by onFrame,
\* and the retained snapshot of the first session is still in place after a
\* reconnect
C34_Witness ==
    /\ sdk = 2
    /\ lastStats.video.pc = 1
    /\ statsHistory.fps # <<>>
    /\ videoFrameCallbackFps > 0

\* C35: starting from Connected, each of three consecutive
\* "disconnected"/"failed" events that arrives after the reconnect timer of
\* the event before has fired (3000 ms apart) moves the status from
\* Connected or Connecting to Reconnecting with a timer set and no terminal
\* error, and the timer moves it from Reconnecting to Connecting: the
\* statuses are Connected, Reconnecting, Connecting, Reconnecting,
\* Connecting, Reconnecting, and the third event leaves reconnectAttempts = 3.
C35_ThreeDisconnects ==
    /\ [][(/\ DisconnectEvent
           /\ reconnectTimers = 0
           /\ run \in 0..2
           /\ statusText = IF run = 0 THEN "Connected" ELSE "Connecting...") =>
             /\ run' = run + 1
             /\ reconnectAttempts' = run'
             /\ statusText' = "Reconnecting..."
             /\ connectionQuality' = "connecting"
             /\ reconnectTimers' = 1
             /\ errorBox' = errorBox]_vars
    /\ [][(ReconnectTimer /\ statusText = "Reconnecting...") =>
             /\ statusText' = "Connecting..."
             /\ reconnectAttempts' = reconnectAttempts]_vars

\* the third event of the scenario has been handled: two reconnects have
\* run, the third is scheduled and no terminal error is shown
C35_Witness ==
    /\ run = 3
    /\ reconnectAttempts = 3
    /\ statusText = "Reconnecting..."
    /\ sdk = 3
    /\ reconnectTimers = 1
    /\ everConnected
    /\ errorBox = ""

\* C36: when play() rejects, for the first attempt or for a reconnect, the
\* catch block shows the status "Error", sets no reconnect timer, starts no
\* attempt and leaves reconnectAttempts as it was.
C36_RejectionSchedulesNoRetry ==
    [][(\E error \in RejectionValues : PlayRejects(error) \/ StalePlayRejects(error)) =>
          /\ reconnectTimers' = reconnectTimers
          /\ reconnectAttempts' = reconnectAttempts
          /\ sdk' = sdk
          /\ connectionQuality' = "bad"
          /\ statusText' = "Error"
          /\ loading' = FALSE]_vars

\* play() of a reconnect has rejected: the counter is where the event left
\* it and nothing is scheduled
C36_Witness ==
    /\ sdk = 2
    /\ playState = "rejected"
    /\ statusText = "Error"
    /\ reconnectAttempts = 1
    /\ reconnectTimers = 0

\* C37: at most one reconnect timer is pending at any time; an event that
\* arrives while a reconnect is scheduled sets no second timer.
C37_OneReconnectPending ==
    reconnectTimers <= 1

\* C38: a connectionstatechange event of a replaced peer connection changes
\* nothing of the current session: not its status, not its counter, not its
\* timers, not its error box.
C38_StaleEventIgnored ==
    [][StaleConnectionStateChange =>
          UNCHANGED <<connectionQuality, statusText, reconnectAttempts,
                      reconnectTimers, errorBox>>]_vars

\* C39: when play() of a replaced adapter resolves, the status, the counter
\* and isPlaying stay as they were.
C39_SupersededPlayIgnored ==
    [][StalePlaySettles(TRUE) =>
          UNCHANGED <<connectionQuality, statusText, reconnectAttempts, isPlaying>>]_vars

====
